---------------------------- MODULE Spec2Model ----------------------------
(***************************************************************************)
(* GCO golf league dashboard (streamlit_app.py): the data loader with its  *)
(* fallback chain (local cache file -> three spreadsheet URLs -> sample    *)
(* data) and the aggregation functions over the loaded table.              *)
(*                                                                         *)
(* Spec      the loader, load_gco_data, as a step machine over the cache   *)
(*           file and the network.                                         *)
(* FairSpec  Spec with the steps of a started call never delayed for ever. *)
(* AggSpec   the aggregation functions applied to bounded datasets.        *)
(* QuerySpec the aggregation functions and the comparison chart, called in *)
(*           any order on one dataset.                                     *)
(* SampleSpec create_sample_data, draw by draw.                            *)
(*                                                                         *)
(* Non-ASCII player and tournament names of the source are written in      *)
(* pinyin: the parser accepts ASCII strings only.                          *)
(***************************************************************************)
EXTENDS Integers, Sequences, FiniteSets, TLC

VARIABLES
    pc,         \* loader position: "idle", "cache", "remote", "returned", "raised"
    file,       \* content of gco_data.csv on disk
    file0,      \* content of gco_data.csv when the current call started
    idx,        \* position of the for loop in urls_to_try (1-based)
    requested,  \* URLs passed to requests.get in the current call, in order
    writes,     \* to_csv calls of the current call that changed the file, each
                \* "full" (completed) or "partial" (failed after opening it)
    caught,     \* why the last candidate was not accepted ("none": it was)
    result,     \* the DataFrame the current call returned
    source,     \* which step returned it: "cache", "remote", "sample"
    calls,      \* number of calls of load_gco_data started
    accepted,   \* history: the table an earlier call accepted from a URL and
                \* wrote to the cache file (NoDf: none did)
    previous,   \* history: which step the previous call returned from
    df,         \* the dataset handed to the aggregation functions
    op,         \* the aggregation call last made, with its arguments
    out,        \* what that call returned
    sample_pc,  \* create_sample_data: "idle", "loop", "return", "done"
    loop,       \* its three for loops: indices of player, tournament and game,
                \* and the column of the record that is drawn next
    cell,       \* the value np.random.randint last returned, and its column
    data        \* the records appended so far (player, tournament and game;
                \* their drawn values pass through cell)

vars == <<pc, file, file0, idx, requested, writes, caught, result, source, calls,
          accepted, previous, df, op, out, sample_pc, loop, cell, data>>

loaderVars == <<pc, file, file0, idx, requested, writes, caught, result, source,
                calls, accepted, previous>>
aggVars == <<df, op, out>>
sampleVars == <<sample_pc, loop, cell, data>>

---------------------------------------------------------------------------
(* Bounds of the model *)

\* rows of a candidate table served by the cache file or the remote source
MaxRows == 2
\* calls of load_gco_data in one behaviour
MaxCalls == 2
\* records of a dataset handed to the aggregation functions
MaxRecords == 2
\* players in the list handed to create_comparison_chart
MaxCompare == 2

---------------------------------------------------------------------------
(* Columns, tables and texts *)

required_columns == {"Player", "Tournament", "Game", "Net_Score"}

stat_columns == {"Net_Score", "Birdies", "Pars", "Bogeys", "Double_Bogeys"}

AllColumns == required_columns \cup stat_columns

\* the column sets a candidate table is drawn with: the full schema, the four
\* validated columns only, and tables lacking one validated column
ColumnSets ==
    {AllColumns, required_columns, AllColumns \ {"Net_Score"},
     required_columns \ {"Player"}}

\* what the cells of a table hold, as far as the loader can tell tables
\* apart: two different contents, and none
CellContents == {"cells_a", "cells_b"}

\* a loader-side DataFrame: its columns, its number of rows, and its cells
Tables == [cols : ColumnSets, nrows : 0..MaxRows, data : CellContents]

NoDf == [cols |-> {}, nrows |-> 0, data |-> "no_cells"]

\* a text: the cache file's content or a response body
EmptyText == [kind |-> "empty"]
Texts ==
    {EmptyText, [kind |-> "doctype_html"], [kind |-> "markup"],
     [kind |-> "garbage"]}
        \cup {[kind |-> "csv", table |-> t] : t \in Tables}

Missing == [kind |-> "missing"]
Unreadable == [kind |-> "unreadable"]

\* what gco_data.csv can be: absent, present but not readable (a directory,
\* no permission), or a text
FileStates == {Missing, Unreadable} \cup Texts

\* what requests.get / raise_for_status can produce for one URL
Responses ==
    {[status |-> s] : s \in {"conn_error", "timeout", "http_error"}}
        \cup {[status |-> "ok", text |-> x] : x \in Texts}

\* how df.to_csv(local_file) can end: written; failed before the file was
\* opened (read-only location); failed after open() truncated the file
WriteOutcomes == {"ok", "fail_clean", "fail_partial"}

urls_to_try == <<"export?format=csv&gid=0", "export?format=csv",
                 "gviz/tq?tqx=out:csv&gid=0">>

---------------------------------------------------------------------------
(* create_sample_data, at the loader's level of detail *)

players == <<"LiuBeinan", "Jacky", "ZhaoKun", "YangZichu", "Neo", "XuZheng",
             "YangMing", "CaoZhenbo", "LiYang", "WangWenlong", "ZengCheng",
             "Justin">>

tournaments == <<"TitiKakaBei", "NuanNanBei", "KaiErTeRenBei">>

games ==
    [t \in {tournaments[i] : i \in 1..Len(tournaments)} |->
        CASE t = "TitiKakaBei" -> <<"Game 1", "Game 2", "Game 3", "Game 4">>
          [] t = "NuanNanBei" -> <<"Game 5", "Game 6", "Game 7", "Game 8">>
          [] OTHER -> <<"Game 9", "Game 10", "Game 11", "Game 12">>]

RECURSIVE SumLen(_, _)
SumLen(f, S) ==
    IF S = {} THEN 0
    ELSE LET x == CHOOSE y \in S : TRUE IN Len(f[x]) + SumLen(f, S \ {x})

\* the sample table: one row per player, tournament and game, all eight
\* columns, cell contents drawn at random (d)
create_sample_data(d) ==
    [cols |-> AllColumns,
     nrows |-> Len(players) * SumLen(games, DOMAIN games),
     data |-> d]

---------------------------------------------------------------------------
(* create_sample_data, record by record *)

\* randint with the upper end included
randintInclusive(low, high) == low..high

\* np.random.randint(low, high): an integer from low up to, not including,
\* high
randint(low, high) == low..(high - 1)

\* the keys of the dict appended in the loop body whose value is drawn, in
\* the order they are evaluated
drawn_columns == <<"Net_Score", "Birdies", "Pars", "Bogeys", "Double_Bogeys">>

\* the values the draw for column c can return
Draw(c) ==
    CASE c = "Net_Score" -> randint(-15, 20)
      [] c = "Birdies" -> randint(0, 5)
      [] c = "Pars" -> randint(5, 15)
      [] c = "Bogeys" -> randint(0, 8)
      [] OTHER -> randint(0, 4)

NoCell == [col |-> "none", value |-> 0]

\* the first iteration of the three loops, before the first draw
FirstRecord == [player |-> 1, tournament |-> 1, game |-> 1, column |-> 1]

\* one draw of the dict under construction
DrawCell ==
    /\ sample_pc = "loop"
    /\ loop.column <= Len(drawn_columns)
    /\ \E v \in Draw(drawn_columns[loop.column]) :
        cell' = [col |-> drawn_columns[loop.column], value |-> v]
    /\ loop' = [loop EXCEPT !.column = @ + 1]
    /\ UNCHANGED <<sample_pc, data, loaderVars, aggVars>>

\* data.append({...}) and the step of the innermost loop that has a next
\* item: game, else tournament, else player; the loops end after the last
\* game of the last tournament of the last player
AppendRecord ==
    /\ sample_pc = "loop"
    /\ loop.column > Len(drawn_columns)
    /\ LET player == players[loop.player]
           tournament == tournaments[loop.tournament]
           game == games[tournament][loop.game]
       IN  /\ data' = Append(data, [Player |-> player, Tournament |-> tournament,
                                    Game |-> game])
           /\ IF loop.game < Len(games[tournament])
              THEN /\ loop' = [loop EXCEPT !.game = @ + 1, !.column = 1]
                   /\ UNCHANGED sample_pc
              ELSE IF loop.tournament < Len(tournaments)
              THEN /\ loop' = [loop EXCEPT !.tournament = @ + 1, !.game = 1,
                                           !.column = 1]
                   /\ UNCHANGED sample_pc
              ELSE IF loop.player < Len(players)
              THEN /\ loop' = [player |-> loop.player + 1, tournament |-> 1,
                               game |-> 1, column |-> 1]
                   /\ UNCHANGED sample_pc
              ELSE /\ sample_pc' = "return"
                   /\ UNCHANGED loop
    /\ UNCHANGED <<cell, loaderVars, aggVars>>

\* return pd.DataFrame(data)
ReturnSample ==
    /\ sample_pc = "return"
    /\ sample_pc' = "done"
    /\ UNCHANGED <<loop, cell, data, loaderVars, aggVars>>

SampleInit ==
    /\ pc = "idle"
    /\ file = Missing
    /\ file0 = Missing
    /\ idx = 1
    /\ requested = <<>>
    /\ writes = <<>>
    /\ caught = "none"
    /\ result = NoDf
    /\ source = "none"
    /\ calls = 0
    /\ accepted = NoDf
    /\ previous = "none"
    /\ df = NoDf
    /\ op = [name |-> "none"]
    /\ out = [kind |-> "None"]
    /\ sample_pc = "loop"
    /\ loop = FirstRecord
    /\ cell = NoCell
    /\ data = <<>>

SampleNext == DrawCell \/ AppendRecord \/ ReturnSample

SampleSpec == SampleInit /\ [][SampleNext]_vars

---------------------------------------------------------------------------
(* Conversions *)

\* pd.read_csv: raises on an empty or malformed text, parses a page of
\* markup as a table whose header is the markup
ParseFailed == [ok |-> FALSE, df |-> NoDf]

read_csv(text) ==
    CASE text.kind = "csv" -> [ok |-> TRUE, df |-> text.table]
      [] text.kind \in {"doctype_html", "markup"} ->
            [ok |-> TRUE, df |-> [cols |-> {"<markup>"}, nrows |-> 1, data |-> "markup"]]
      [] OTHER -> ParseFailed

\* df.to_csv(local_file, index=False): header line and one line per row
to_csv(d) == [kind |-> "csv", table |-> d]

\* what a to_csv that failed after opening the file can leave behind: the
\* truncated file, or the header with the first rows
PartialWrites(d) ==
    {EmptyText} \cup {to_csv([d EXCEPT !.nrows = k]) : k \in 0..(d.nrows - 1)}

\* df.empty: an axis of length 0
IsEmpty(d) == d.nrows = 0 \/ d.cols = {}

\* all(col in df.columns for col in required_columns) and not df.empty
Validate(d) == required_columns \subseteq d.cols /\ ~IsEmpty(d)

\* response.text and not response.text.strip().startswith('<!DOCTYPE')
LooksLikeCsv(text) == text.kind # "empty" /\ text.kind # "doctype_html"

---------------------------------------------------------------------------
(* load_gco_data *)

\* what one step of the loader comes to: flow is "return" (return df),
\* "next" (go on to the next source) or "raise" (an exception leaves
\* load_gco_data); disk is the cache file afterwards; wrote tells whether
\* to_csv changed the file ("no", "full", "partial"); why names the failure
Outcome(flow, d, disk, wrote, why) ==
    [flow |-> flow, df |-> d, disk |-> disk, wrote |-> wrote, why |-> why]

\* OnLocalException with the handler too narrow for the error: it escapes
OnLocalExceptionUncaught(f, why) == Outcome("raise", NoDf, f, "no", why)

\* except Exception as e: st.warning(...), then on to the Google Sheets step
OnLocalException(f, why) == Outcome("next", NoDf, f, "no", why)

\* OnUrlException with a handler for requests.RequestException only: parse
\* and write errors escape
OnUrlExceptionNarrow(disk, wrote, why) ==
    Outcome(IF why \in {"conn_error", "timeout", "http_error"} THEN "next" ELSE "raise",
            NoDf, disk, wrote, why)

\* except Exception: continue
OnUrlException(disk, wrote, why) == Outcome("next", NoDf, disk, wrote, why)

\* TryLocal with the os.path.exists test inverted: the file is never used
TryLocalNeverUsed(f) ==
    Outcome("next", NoDf, f, "no", IF f = Missing THEN "read_error" ELSE "file_missing")

\* the local-file step on a cache file f
TryLocal(f) ==
    IF f = Missing THEN Outcome("next", NoDf, f, "no", "file_missing")
    ELSE IF f = Unreadable THEN OnLocalException(f, "read_error")
    ELSE LET p == read_csv(f) IN
         IF ~p.ok THEN OnLocalException(f, "parse_error")
         ELSE IF Validate(p.df) THEN Outcome("return", p.df, f, "no", "none")
         ELSE Outcome("next", NoDf, f, "no",
                      IF IsEmpty(p.df) THEN "empty_table" ELSE "schema_invalid")

\* df.to_csv(local_file, index=False) followed by return df, with the write
\* ending as wr; part is what a write that failed half way left on disk
SaveAndReturn(d, f, wr, part) ==
    CASE wr = "ok" -> Outcome("return", d, to_csv(d), "full", "none")
      [] wr = "fail_clean" -> OnUrlException(f, "no", "write_error")
      [] OTHER -> OnUrlException(part, "partial", "write_error")

\* the body of the for loop for one URL answering resp, the cache file being f
TryRemote(resp, f, wr, part) ==
    IF resp.status # "ok" THEN OnUrlException(f, "no", resp.status)
    ELSE IF ~LooksLikeCsv(resp.text) THEN
        Outcome("next", NoDf, f, "no",
                IF resp.text.kind = "empty" THEN "empty_body" ELSE "html_page")
    ELSE LET p == read_csv(resp.text) IN
         IF ~p.ok THEN OnUrlException(f, "no", "parse_error")
         ELSE IF Validate(p.df) THEN SaveAndReturn(p.df, f, wr, part)
         ELSE Outcome("next", NoDf, f, "no",
                      IF IsEmpty(p.df) THEN "empty_table" ELSE "schema_invalid")

\* the ways the to_csv of the loop body can end for the response resp: the
\* outcome and, for a write that failed half way, what it left on disk (a
\* body that never reaches to_csv has one way)
WriteChoices(resp) ==
    LET p == IF resp.status = "ok" THEN read_csv(resp.text) ELSE ParseFailed IN
    IF resp.status = "ok" /\ LooksLikeCsv(resp.text) /\ p.ok /\ Validate(p.df)
    THEN {<<wr, EmptyText>> : wr \in WriteOutcomes \ {"fail_partial"}}
            \cup {<<"fail_partial", part>> : part \in PartialWrites(p.df)}
    ELSE {<<"ok", EmptyText>>}

\* NextIndex stepping over a URL
NextIndexSkip(i) == i + 2

\* for url in urls_to_try: the index after a candidate was not accepted
NextIndex(i) == i + 1

Returned(d, src) ==
    /\ pc' = "returned"
    /\ result' = d
    /\ source' = src

\* a call of load_gco_data starts
Call ==
    /\ pc \in {"idle", "returned"}
    /\ calls < MaxCalls
    /\ pc' = "cache"
    /\ calls' = calls + 1
    /\ file0' = file
    /\ idx' = 1
    /\ requested' = <<>>
    /\ writes' = <<>>
    /\ caught' = "none"
    /\ result' = NoDf
    /\ source' = "none"
    /\ accepted' = IF source = "remote" THEN result ELSE accepted
    /\ previous' = source
    /\ UNCHANGED <<file, aggVars, sampleVars>>

\* if os.path.exists(local_file): try: ... except ...
LoadLocal ==
    /\ pc = "cache"
    /\ LET o == TryLocal(file) IN
        /\ caught' = o.why
        /\ CASE o.flow = "return" -> Returned(o.df, "cache")
             [] o.flow = "next" -> pc' = "remote" /\ UNCHANGED <<result, source>>
             [] OTHER -> pc' = "raised" /\ UNCHANGED <<result, source>>
    /\ UNCHANGED <<file, file0, idx, requested, writes, calls, accepted, previous,
                   aggVars, sampleVars>>

\* one iteration of for url in urls_to_try
TryUrl ==
    /\ pc = "remote"
    /\ idx <= Len(urls_to_try)
    /\ \E resp \in Responses :
        \E w \in WriteChoices(resp) :
            LET o == TryRemote(resp, file, w[1], w[2]) IN
                /\ requested' = Append(requested, urls_to_try[idx])
                /\ file' = o.disk
                /\ writes' = IF o.wrote = "no" THEN writes
                             ELSE Append(writes, o.wrote)
                /\ caught' = o.why
                /\ CASE o.flow = "return" ->
                            Returned(o.df, "remote") /\ UNCHANGED idx
                     [] o.flow = "next" ->
                            /\ idx' = NextIndex(idx)
                            /\ UNCHANGED <<pc, result, source>>
                     [] OTHER ->
                            pc' = "raised" /\ UNCHANGED <<idx, result, source>>
    /\ UNCHANGED <<file0, calls, accepted, previous, aggVars, sampleVars>>

\* the loop ran out of URLs: st.warning, st.info, return create_sample_data()
UseSample ==
    /\ pc = "remote"
    /\ idx > Len(urls_to_try)
    /\ \E d \in CellContents : Returned(create_sample_data(d), "sample")
    /\ UNCHANGED <<file, file0, idx, requested, writes, caught, calls, accepted,
                   previous, aggVars, sampleVars>>

NoCall == [name |-> "none"]

Init ==
    /\ pc = "idle"
    /\ file \in FileStates
    /\ file0 = file
    /\ idx = 1
    /\ requested = <<>>
    /\ writes = <<>>
    /\ caught = "none"
    /\ result = NoDf
    /\ source = "none"
    /\ calls = 0
    /\ accepted = NoDf
    /\ previous = "none"
    /\ df = NoDf
    /\ op = NoCall
    /\ out = [kind |-> "None"]
    /\ sample_pc = "idle"
    /\ loop = FirstRecord
    /\ cell = NoCell
    /\ data = <<>>

Next == Call \/ LoadLocal \/ TryUrl \/ UseSample

Spec == Init /\ [][Next]_vars

\* load_gco_data runs to completion once called: its steps are not delayed
\* for ever
FairSpec == Spec /\ WF_vars(LoadLocal) /\ WF_vars(TryUrl) /\ WF_vars(UseSample)

---------------------------------------------------------------------------
(* Datasets of the aggregation functions *)

\* a numeric cell is <<n>>, a missing one (NaN) is <<>>
NaN == <<>>
Num(n) == <<n>>

Record(player, tournament, game, net, birdies, pars, bogeys, doubles) ==
    [Player |-> player, Tournament |-> tournament, Game |-> game,
     Net_Score |-> net, Birdies |-> Num(birdies), Pars |-> Num(pars),
     Bogeys |-> Num(bogeys), Double_Bogeys |-> Num(doubles)]

\* pd.DataFrame(data) of a dict of equally long columns
DataFrame(columns, rows) ==
    [cols |-> columns,
     rows |-> [i \in 1..Len(rows) |-> [c \in columns |-> rows[i][c]]]]

\* the records datasets are built from: two players, a game of each of two
\* tournaments, a net score under par, over par or missing, and two cards
RecordPool ==
    {Record(p, g[1], g[2], n, c[1], c[2], c[3], c[4]) :
        p \in {"Jacky", "Neo"},
        g \in {<<"TitiKakaBei", "Game 1">>, <<"NuanNanBei", "Game 5">>},
        n \in {Num(-2), Num(1), NaN},
        c \in {<<1, 10, 2, 1>>, <<2, 11, 1, 0>>}}

RECURSIVE SeqsUpTo(_, _)
SeqsUpTo(S, n) ==
    IF n = 0 THEN {<<>>}
    ELSE LET shorter == SeqsUpTo(S, n - 1) IN
         shorter \cup {Append(q, x) : q \in {r \in shorter : Len(r) = n - 1}, x \in S}

\* TestPlayerStatistics.test_player_data
test_player_data ==
    DataFrame(AllColumns,
        <<Record("TestPlayer", "TitiKakaBei", "Game1", Num(-2), 2, 10, 3, 1),
          Record("TestPlayer", "TitiKakaBei", "Game2", Num(1), 1, 12, 2, 1),
          Record("TestPlayer", "TitiKakaBei", "Game3", Num(0), 0, 14, 2, 0),
          Record("TestPlayer", "TitiKakaBei", "Game4", Num(3), 0, 11, 4, 1),
          Record("TestPlayer", "TitiKakaBei", "Game5", Num(-1), 1, 13, 1, 1)>>)

\* TestTournamentAnalysis.tournament_data
tournament_data_fixture ==
    DataFrame(AllColumns,
        <<Record("Player1", "TitiKakaBei", "Game1", Num(2), 1, 10, 2, 1),
          Record("Player1", "TitiKakaBei", "Game2", Num(-1), 2, 11, 1, 0),
          Record("Player2", "TitiKakaBei", "Game1", Num(0), 1, 12, 1, 0),
          Record("Player2", "TitiKakaBei", "Game2", Num(3), 0, 9, 3, 2),
          Record("Player3", "TitiKakaBei", "Game1", Num(-2), 3, 8, 1, 0),
          Record("Player3", "TitiKakaBei", "Game2", Num(1), 1, 10, 2, 1)>>)

\* TestDataValidation.test_missing_values_handling
data_with_nan ==
    DataFrame(AllColumns,
        <<Record("Player1", "TitiKakaBei", "Game1", Num(2), 1, 10, 2, 1),
          Record("Player2", "NuanNanBei", "Game2", NaN, 2, 11, 1, 0)>>)

\* TestPlayerStatistics.test_calculate_player_stats_empty_dataframe
empty_df ==
    DataFrame({"Player", "Net_Score", "Birdies", "Pars", "Bogeys", "Double_Bogeys"},
              <<>>)

TestFixtures == {test_player_data, tournament_data_fixture, data_with_nan, empty_df}

\* the datasets the aggregation functions are applied to: every table of up
\* to MaxRecords records with the full schema, the tables of one record as
\* the loader accepts them with the four validated columns only, and the
\* tables of the test suite
Datasets ==
    {DataFrame(AllColumns, q) : q \in SeqsUpTo(RecordPool, MaxRecords)}
        \cup {DataFrame(required_columns, <<r>>) : r \in RecordPool}
        \cup TestFixtures

---------------------------------------------------------------------------
(* pandas Series reductions (skipna=True) *)

RECURSIVE SumSeq(_)
SumSeq(q) == IF q = <<>> THEN 0 ELSE Head(q) + SumSeq(Tail(q))

RECURSIVE MinSeq(_)
MinSeq(q) ==
    IF Len(q) = 1 THEN Head(q)
    ELSE LET m == MinSeq(Tail(q)) IN IF Head(q) <= m THEN Head(q) ELSE m

RECURSIVE MaxSeq(_)
MaxSeq(q) ==
    IF Len(q) = 1 THEN Head(q)
    ELSE LET m == MaxSeq(Tail(q)) IN IF Head(q) >= m THEN Head(q) ELSE m

\* data[c]
Column(rows, c) == [i \in 1..Len(rows) |-> rows[i][c]]

\* the values of a column that are not missing
Values(col) ==
    LET present == SelectSeq(col, LAMBDA v : v # NaN)
    IN  [i \in 1..Len(present) |-> present[i][1]]

\* Series.count(): the values that are not missing
Count(col) == Len(Values(col))

\* Series.sum(): missing values are skipped, the sum of none is 0
Sum(col) == SumSeq(Values(col))

\* Series.mean(): the fraction <<sum, count>> over the values that are not
\* missing, NaN when there is none
Mean(col) ==
    IF Count(col) = 0 THEN NaN ELSE <<Sum(col), Count(col)>>

\* Min taking the largest value
MinTakesLargest(col) == IF Count(col) = 0 THEN NaN ELSE Num(MaxSeq(Values(col)))

\* Series.min() and Series.max(): NaN when every value is missing
Min(col) == IF Count(col) = 0 THEN NaN ELSE Num(MinSeq(Values(col)))

Max(col) == IF Count(col) = 0 THEN NaN ELSE Num(MaxSeq(Values(col)))

\* Series.std(), ddof=1: the square root of the fraction
\* <<n * sum(x^2) - sum(x)^2, n * (n - 1)>>, kept as that fraction; NaN for
\* fewer than two values
Std(col) ==
    LET x == Values(col)
        n == Len(x)
        squares == [i \in 1..n |-> x[i] * x[i]]
    IN  IF n < 2 THEN NaN
        ELSE <<n * SumSeq(squares) - SumSeq(x) * SumSeq(x), n * (n - 1)>>

---------------------------------------------------------------------------
(* calculate_player_stats *)

None == [kind |-> "None"]

KeyError == [kind |-> "KeyError"]

\* PlayerData with the rows that have no Net_Score dropped
PlayerDataDropNa(d, player_name) ==
    SelectSeq(d.rows, LAMBDA r :
        r["Player"] = player_name /\ ("Net_Score" \in d.cols => r["Net_Score"] # NaN))

\* df[df['Player'] == player_name]
PlayerData(d, player_name) ==
    SelectSeq(d.rows, LAMBDA r : r["Player"] = player_name)

\* TotalGames counting each game once
TotalGamesDistinct(player_data) ==
    Cardinality({<<player_data[i]["Tournament"], player_data[i]["Game"]>> :
                    i \in 1..Len(player_data)})

\* len(player_data)
TotalGames(player_data) == Len(player_data)

calculate_player_stats(d, player_name) ==
    IF "Player" \notin d.cols THEN KeyError
    ELSE LET player_data == PlayerData(d, player_name) IN
         IF player_data = <<>> THEN None
         ELSE IF ~(stat_columns \subseteq d.cols) THEN KeyError
         ELSE [kind |-> "stats",
               total_games |-> TotalGames(player_data),
               avg_net_score |-> Mean(Column(player_data, "Net_Score")),
               best_score |-> Min(Column(player_data, "Net_Score")),
               worst_score |-> Max(Column(player_data, "Net_Score")),
               total_birdies |-> Sum(Column(player_data, "Birdies")),
               total_pars |-> Sum(Column(player_data, "Pars")),
               total_bogeys |-> Sum(Column(player_data, "Bogeys")),
               total_double_bogeys |-> Sum(Column(player_data, "Double_Bogeys")),
               birdie_rate |-> Mean(Column(player_data, "Birdies")),
               consistency |-> Std(Column(player_data, "Net_Score"))]

\* the values of column c in d, as a set ({} when d has no such column)
Unique(d, c) ==
    IF c \in d.cols THEN {d.rows[i][c] : i \in 1..Len(d.rows)} ELSE {}

\* the players a caller asks about: those of the dataset (the select boxes
\* of main) and one that is not in it (the tests)
QueryPlayers(d) == Unique(d, "Player") \cup {"NonExistentPlayer"}

CalculatePlayerStats ==
    /\ \E p \in QueryPlayers(df) :
        /\ op' = [name |-> "calculate_player_stats", player |-> p]
        /\ out' = calculate_player_stats(df, p)
    /\ UNCHANGED <<df, loaderVars, sampleVars>>

---------------------------------------------------------------------------
(* create_tournament_leaderboard *)

\* DataFrame.round(2) of a mean: the fraction of denominator 100 nearest to
\* it, a tie going to the even numerator (numpy rounds half to even)
Round2(x) ==
    IF x = NaN THEN NaN
    ELSE LET n == 100 * x[1]
             q == n \div x[2]
             r == n - q * x[2]
         IN  IF 2 * r < x[2] THEN <<q, 100>>
             ELSE IF 2 * r > x[2] THEN <<q + 1, 100>>
             ELSE IF q % 2 = 0 THEN <<q, 100>> ELSE <<q + 1, 100>>

\* TournamentData without the filter: the rows of every tournament
TournamentDataUnfiltered(d, tournament_name) == d.rows

\* df[df['Tournament'] == tournament_name]
TournamentData(d, tournament_name) ==
    SelectSeq(d.rows, LAMBDA r : r["Tournament"] = tournament_name)

\* the keys of groupby('Player')
GroupKeys(tournament_data) ==
    {tournament_data[i]["Player"] : i \in 1..Len(tournament_data)}

\* .agg({...}).round(2) with the columns renamed, for the group of player p
Aggregate(tournament_data, p) ==
    LET group == SelectSeq(tournament_data, LAMBDA r : r["Player"] = p) IN
    [Player |-> p,
     Total_Score |-> Sum(Column(group, "Net_Score")),
     Avg_Score |-> Round2(Mean(Column(group, "Net_Score"))),
     Games_Played |-> Count(Column(group, "Net_Score")),
     Total_Birdies |-> Sum(Column(group, "Birdies")),
     Total_Pars |-> Sum(Column(group, "Pars")),
     Total_Bogeys |-> Sum(Column(group, "Bogeys")),
     Total_Double_Bogeys |-> Sum(Column(group, "Double_Bogeys"))]

\* SortsBefore for a descending sort
SortsBeforeDescending(a, b) == a >= b

\* sort_values('Total_Score') is ascending: a may stand before b
SortsBefore(a, b) == a <= b

\* the orders sort_values can leave the groups in: every arrangement of the
\* rows with Total_Score ascending (quicksort keeps no order among ties)
SortValues(groups) ==
    LET n == Cardinality(groups) IN
    {q \in [1..n -> groups] :
        /\ \A i, j \in 1..n : i # j => q[i] # q[j]
        /\ \A i \in 1..(n - 1) : SortsBefore(q[i].Total_Score, q[i + 1].Total_Score)}

\* RankFrom numbering the rows from 0
RankFromZero(i) == i - 1

\* leaderboard['Rank'] = range(1, len(leaderboard) + 1), at row i (1-based)
RankFrom(i) == i

\* reset_index and the Rank column
WithRank(q) ==
    [i \in 1..Len(q) |->
        [Player |-> q[i].Player, Total_Score |-> q[i].Total_Score,
         Avg_Score |-> q[i].Avg_Score, Games_Played |-> q[i].Games_Played,
         Total_Birdies |-> q[i].Total_Birdies, Total_Pars |-> q[i].Total_Pars,
         Total_Bogeys |-> q[i].Total_Bogeys,
         Total_Double_Bogeys |-> q[i].Total_Double_Bogeys,
         Rank |-> RankFrom(i)]]

leaderboard_columns ==
    <<"Player", "Total_Score", "Avg_Score", "Games_Played", "Total_Birdies",
      "Total_Pars", "Total_Bogeys", "Total_Double_Bogeys", "Rank">>

\* the leaderboards create_tournament_leaderboard(d, tournament_name) can
\* return: one for each order the sort can leave tied rows in
create_tournament_leaderboard(d, tournament_name) ==
    IF ~(({"Tournament", "Player"} \cup stat_columns) \subseteq d.cols)
    THEN {KeyError}
    ELSE LET tournament_data == TournamentData(d, tournament_name)
             groups == {Aggregate(tournament_data, p) : p \in GroupKeys(tournament_data)}
         IN  {[kind |-> "leaderboard", columns |-> leaderboard_columns,
               rows |-> WithRank(q)] : q \in SortValues(groups)}

\* the tournaments a caller asks about: the three of main's overview and
\* one no dataset has (the tests)
QueryTournaments ==
    {tournaments[i] : i \in 1..Len(tournaments)} \cup {"NoSuchTournament"}

\* InPlaceTarget when the statements write through the argument
InPlaceTargetIsArgument == "df"

\* the name the in-place statements write through:
\* leaderboard.reset_index(inplace=True) and leaderboard['Rank'] = ...
InPlaceTarget == "leaderboard"

\* the frame the caller's dataset is when the function has returned lb:
\* leaderboard names the frame sort_values returned, built from the copy
\* that df[...] selected, so a write through it leaves d as it was
DatasetAfter(d, lb) ==
    IF InPlaceTarget = "df" /\ lb.kind = "leaderboard"
    THEN [cols |-> {lb.columns[i] : i \in 1..Len(lb.columns)}, rows |-> lb.rows]
    ELSE d

CreateTournamentLeaderboard ==
    /\ \E t \in QueryTournaments :
        \E lb \in create_tournament_leaderboard(df, t) :
            /\ op' = [name |-> "create_tournament_leaderboard", tournament |-> t]
            /\ out' = lb
            /\ df' = DatasetAfter(df, lb)
    /\ UNCHANGED <<loaderVars, sampleVars>>

---------------------------------------------------------------------------
(* create_comparison_chart *)

\* if stats: None is false, a dict with keys is true
Truthy(stats) == stats # None

\* the row appended for player from its stats
ComparisonRow(player, stats) ==
    [Player |-> player,
     Avg_Net_Score |-> stats.avg_net_score,
     Total_Birdies |-> stats.total_birdies,
     Birdie_Rate |-> stats.birdie_rate,
     Consistency |-> stats.consistency]

\* the for loop over players_to_compare, comparison_data being acc so far;
\* ok is FALSE when calculate_player_stats raised
RECURSIVE ComparisonData(_, _, _)
ComparisonData(d, players_to_compare, acc) ==
    IF players_to_compare = <<>> THEN [ok |-> TRUE, rows |-> acc]
    ELSE LET player == Head(players_to_compare)
             stats == calculate_player_stats(d, player)
         IN  IF stats = KeyError THEN [ok |-> FALSE, rows |-> acc]
             ELSE ComparisonData(d, Tail(players_to_compare),
                                 IF Truthy(stats)
                                 THEN Append(acc, ComparisonRow(player, stats))
                                 ELSE acc)

\* the figure: four bar traces over the columns of comparison_df. A
\* DataFrame built from an empty list has no columns, so
\* comparison_df['Player'] raises KeyError when no row was appended
create_comparison_chart(d, players_to_compare) ==
    LET built == ComparisonData(d, players_to_compare, <<>>) IN
    IF ~built.ok THEN KeyError
    ELSE IF built.rows = <<>> THEN KeyError
    ELSE [kind |-> "figure", rows |-> built.rows]

CreateComparisonChart ==
    /\ \E ps \in SeqsUpTo(QueryPlayers(df), MaxCompare) :
        /\ op' = [name |-> "create_comparison_chart", players |-> ps]
        /\ out' = create_comparison_chart(df, ps)
    /\ UNCHANGED <<df, loaderVars, sampleVars>>

AggInit ==
    /\ pc = "idle"
    /\ file = Missing
    /\ file0 = Missing
    /\ idx = 1
    /\ requested = <<>>
    /\ writes = <<>>
    /\ caught = "none"
    /\ result = NoDf
    /\ source = "none"
    /\ calls = 0
    /\ accepted = NoDf
    /\ previous = "none"
    /\ df \in Datasets
    /\ op = NoCall
    /\ out = None
    /\ sample_pc = "idle"
    /\ loop = FirstRecord
    /\ cell = NoCell
    /\ data = <<>>

AggNext == CalculatePlayerStats \/ CreateTournamentLeaderboard

AggSpec == AggInit /\ [][AggNext]_vars

\* the datasets the three query functions are called on in turn: the
\* tables of the test suite and every table of up to MaxRecords records of
\* one game with one card, which leaves the players and the scores to vary
QueryDatasets ==
    {DataFrame(AllColumns, q) :
        q \in SeqsUpTo({r \in RecordPool : r["Game"] = "Game 1" /\ r["Birdies"] = Num(1)},
                       MaxRecords)}
        \cup TestFixtures

QueryInit ==
    /\ pc = "idle"
    /\ file = Missing
    /\ file0 = Missing
    /\ idx = 1
    /\ requested = <<>>
    /\ writes = <<>>
    /\ caught = "none"
    /\ result = NoDf
    /\ source = "none"
    /\ calls = 0
    /\ accepted = NoDf
    /\ previous = "none"
    /\ df \in QueryDatasets
    /\ op = NoCall
    /\ out = None
    /\ sample_pc = "idle"
    /\ loop = FirstRecord
    /\ cell = NoCell
    /\ data = <<>>

\* the three query functions, called in any order on one dataset
QueryNext == AggNext \/ CreateComparisonChart

QuerySpec == QueryInit /\ [][QueryNext]_vars

---------------------------------------------------------------------------
(* Properties of calculate_player_stats *)

\* the rows of d whose Player is p, by position
RowsOf(d, p) == {i \in 1..Len(d.rows) : d.rows[i]["Player"] = p}

\* d has the Player column and the five count/score columns of the data model
HasStatSchema(d) ==
    {"Player", "Net_Score", "Birdies", "Pars", "Bogeys", "Double_Bogeys"}
        \subseteq d.cols

\* the sum of column c over the rows I of d
RECURSIVE SumOver(_, _, _)
SumOver(d, c, I) ==
    IF I = {} THEN 0
    ELSE LET i == CHOOSE j \in I : TRUE
         IN  d.rows[i][c][1] + SumOver(d, c, I \ {i})

NoMissing(d, I) ==
    \A i \in I : \A c \in {"Net_Score", "Birdies", "Pars", "Bogeys", "Double_Bogeys"} :
        d.rows[i][c] # NaN

\* the fractions a and b are the same number
FracEq(a, b) == a # NaN /\ b # NaN /\ a[1] * b[2] = b[1] * a[2]

StatsCalled == op.name = "calculate_player_stats"

\* C7: for a player with at least one row, total_games is the number of
\* rows whose Player is that player: rows of the same game and rows without
\* a Net_Score count each.
C7_TotalGamesCountsRows ==
    (StatsCalled /\ HasStatSchema(df) /\ RowsOf(df, op.player) # {}) =>
        /\ out.kind = "stats"
        /\ out.total_games = Cardinality(RowsOf(df, op.player))

\* C7 witness: a player with two rows of the same game, one of them without
\* a Net_Score, has total_games = 2
C7_Witness ==
    /\ StatsCalled
    /\ HasStatSchema(df)
    /\ Len(df.rows) = 2
    /\ RowsOf(df, op.player) = {1, 2}
    /\ df.rows[1]["Game"] = df.rows[2]["Game"]
    /\ df.rows[1]["Net_Score"] # NaN
    /\ df.rows[2]["Net_Score"] = NaN
    /\ out.kind = "stats"
    /\ out.total_games = 2

\* C8: calculate_player_stats returns None exactly when no row has the
\* player (so for every player on an empty dataset), and returns a
\* statistics record, raising nothing, when a row has it.
C8_NoneIffNoRows ==
    StatsCalled =>
        /\ "Player" \in df.cols => (out = None <=> RowsOf(df, op.player) = {})
        /\ (HasStatSchema(df) /\ RowsOf(df, op.player) # {}) => out.kind = "stats"

\* C8 witness: None was returned for a player on the empty dataset
C8_Witness ==
    /\ StatsCalled
    /\ df.rows = <<>>
    /\ out = None

\* C9: for a player with at least one row and no missing value, best_score
\* and worst_score are the least and greatest Net_Score, avg_net_score is
\* their sum over total_games, the four totals are the column sums and
\* birdie_rate is total_birdies over total_games; for the net scores
\* -2, 1, 0, 3, -1 the average is 1/5, the best -2 and the worst 3.
C9_StatsValues ==
    LET I == RowsOf(df, op.player)
        nets == {df.rows[i]["Net_Score"][1] : i \in I}
    IN  /\ (StatsCalled /\ HasStatSchema(df) /\ I # {} /\ NoMissing(df, I)) =>
            /\ out.kind = "stats"
            /\ out.best_score # NaN /\ out.worst_score # NaN
            /\ out.best_score[1] \in nets /\ \A n \in nets : out.best_score[1] <= n
            /\ out.worst_score[1] \in nets /\ \A n \in nets : out.worst_score[1] >= n
            /\ FracEq(out.avg_net_score, <<SumOver(df, "Net_Score", I), out.total_games>>)
            /\ out.total_birdies = SumOver(df, "Birdies", I)
            /\ out.total_pars = SumOver(df, "Pars", I)
            /\ out.total_bogeys = SumOver(df, "Bogeys", I)
            /\ out.total_double_bogeys = SumOver(df, "Double_Bogeys", I)
            /\ FracEq(out.birdie_rate, <<out.total_birdies, out.total_games>>)
        /\ (StatsCalled /\ df = test_player_data /\ op.player = "TestPlayer") =>
            /\ FracEq(out.avg_net_score, <<1, 5>>)
            /\ out.best_score = Num(-2)
            /\ out.worst_score = Num(3)

\* C9 witness: the statistics of TestPlayer on the five rows of the test
C9_Witness ==
    /\ StatsCalled
    /\ df = test_player_data
    /\ op.player = "TestPlayer"
    /\ out.kind = "stats"
    /\ out.total_games = 5

---------------------------------------------------------------------------
(* Properties of create_tournament_leaderboard *)

LeaderboardReturned ==
    op.name = "create_tournament_leaderboard" /\ out.kind = "leaderboard"

\* C10: the ranks of a leaderboard are 1..k in row order, Total_Score never
\* decreases along the rows (so between adjacent rows the rank grows exactly
\* when the total does not shrink), the row of rank 1 has the least total,
\* and rows of equal total get distinct, consecutive ranks.
C10_RanksFollowTotals ==
    LeaderboardReturned =>
        LET rows == out.rows
            k == Len(rows)
        IN  /\ \A i \in 1..k : rows[i].Rank = i
            /\ \A i \in 1..(k - 1) :
                /\ rows[i].Total_Score <= rows[i + 1].Total_Score
                /\ (rows[i].Rank < rows[i + 1].Rank
                        <=> rows[i].Total_Score <= rows[i + 1].Total_Score)
                /\ rows[i].Total_Score = rows[i + 1].Total_Score =>
                        rows[i + 1].Rank = rows[i].Rank + 1
            /\ \A i, j \in 1..k :
                rows[i].Rank = 1 => rows[i].Total_Score <= rows[j].Total_Score

\* C10 witness: a leaderboard of three players with distinct totals, the
\* lowest first
C10_Witness ==
    /\ LeaderboardReturned
    /\ Len(out.rows) = 3
    /\ out.rows[1].Total_Score < out.rows[2].Total_Score
    /\ out.rows[2].Total_Score < out.rows[3].Total_Score
    /\ out.rows[3].Rank = 3

\* a leaderboard whose two rows have the same total and the ranks 1 and 2
C10_TieReached ==
    /\ LeaderboardReturned
    /\ Len(out.rows) = 2
    /\ out.rows[1].Total_Score = out.rows[2].Total_Score
    /\ out.rows[1].Rank = 1 /\ out.rows[2].Rank = 2

\* the rows of d of player p in tournament t, by position
RowsIn(d, p, t) ==
    {i \in 1..Len(d.rows) : d.rows[i]["Player"] = p /\ d.rows[i]["Tournament"] = t}

\* the players with a row of d in tournament t
PlayersIn(d, t) ==
    {d.rows[i]["Player"] : i \in {j \in 1..Len(d.rows) : d.rows[j]["Tournament"] = t}}

\* d has the columns of the data model the leaderboard reads
HasLeaderboardSchema(d) ==
    {"Player", "Tournament", "Net_Score", "Birdies", "Pars", "Bogeys",
     "Double_Bogeys"} \subseteq d.cols

LeaderboardCalled == op.name = "create_tournament_leaderboard"

\* C11: the leaderboard of tournament t has exactly one row for each player
\* with a row in t and none for another player; for a tournament without
\* rows it is the empty sequence with all nine columns, not an error.
C11_OneRowPerPlayer ==
    (LeaderboardCalled /\ HasLeaderboardSchema(df)) =>
        LET present == PlayersIn(df, op.tournament) IN
        /\ out.kind = "leaderboard"
        /\ {out.rows[i].Player : i \in 1..Len(out.rows)} = present
        /\ Len(out.rows) = Cardinality(present)
        /\ present = {} =>
            /\ out.rows = <<>>
            /\ out.columns = <<"Player", "Total_Score", "Avg_Score", "Games_Played",
                               "Total_Birdies", "Total_Pars", "Total_Bogeys",
                               "Total_Double_Bogeys", "Rank">>

\* C11 witness: a dataset with rows of two tournaments, asked for one that
\* a single player has two rows in: one row comes back
C11_Witness ==
    /\ LeaderboardCalled
    /\ out.kind = "leaderboard"
    /\ Len(df.rows) = 2
    /\ df.rows[1]["Player"] = df.rows[2]["Player"]
    /\ df.rows[1]["Tournament"] = op.tournament
    /\ df.rows[2]["Tournament"] = op.tournament
    /\ Len(out.rows) = 1

\* a leaderboard asked of a dataset with rows, none of them in the tournament
C11_EmptyReached ==
    /\ LeaderboardCalled
    /\ df.rows # <<>>
    /\ out.kind = "leaderboard"
    /\ out.rows = <<>>

\* C12 (as claimed): in every row of the leaderboard Games_Played is the
\* number of the player's rows in the tournament, rows without a Net_Score
\* included, Total_Score is the sum of the player's Net_Score values there
\* and the four shot totals are the sums of their columns over those rows.
C12_LeaderboardTotals ==
    (LeaderboardCalled /\ HasLeaderboardSchema(df) /\ out.kind = "leaderboard") =>
        \A i \in 1..Len(out.rows) :
            LET I == RowsIn(df, out.rows[i].Player, op.tournament)
                scored == {j \in I : df.rows[j]["Net_Score"] # NaN}
            IN  /\ out.rows[i].Games_Played = Cardinality(I)
                /\ out.rows[i].Total_Score = SumOver(df, "Net_Score", scored)
                /\ out.rows[i].Total_Birdies = SumOver(df, "Birdies", I)
                /\ out.rows[i].Total_Pars = SumOver(df, "Pars", I)
                /\ out.rows[i].Total_Bogeys = SumOver(df, "Bogeys", I)
                /\ out.rows[i].Total_Double_Bogeys = SumOver(df, "Double_Bogeys", I)

\* the totals as the code computes them: Games_Played counts the rows that
\* have a Net_Score
C12_SumsHold ==
    (LeaderboardCalled /\ HasLeaderboardSchema(df) /\ out.kind = "leaderboard") =>
        \A i \in 1..Len(out.rows) :
            LET I == RowsIn(df, out.rows[i].Player, op.tournament)
                scored == {j \in I : df.rows[j]["Net_Score"] # NaN}
            IN  /\ out.rows[i].Games_Played = Cardinality(scored)
                /\ out.rows[i].Total_Score = SumOver(df, "Net_Score", scored)
                /\ out.rows[i].Total_Birdies = SumOver(df, "Birdies", I)
                /\ out.rows[i].Total_Pars = SumOver(df, "Pars", I)
                /\ out.rows[i].Total_Bogeys = SumOver(df, "Bogeys", I)
                /\ out.rows[i].Total_Double_Bogeys = SumOver(df, "Double_Bogeys", I)

---------------------------------------------------------------------------
(* Properties of create_comparison_chart *)

ComparisonCalled == op.name = "create_comparison_chart"

\* the rows C13 describes: for the requested players that have a row, in
\* the order requested, the four figures of calculate_player_stats
ExpectedComparison(d, requested_players) ==
    LET kept == SelectSeq(requested_players, LAMBDA p : RowsOf(d, p) # {}) IN
    [i \in 1..Len(kept) |->
        LET stats == calculate_player_stats(d, kept[i]) IN
        [Player |-> kept[i],
         Avg_Net_Score |-> stats.avg_net_score,
         Total_Birdies |-> stats.total_birdies,
         Birdie_Rate |-> stats.birdie_rate,
         Consistency |-> stats.consistency]]

\* C13 (as claimed): for any list of requested players the rows of the
\* comparison are those of the requested players that have a row, in input
\* order, one per requested entry; a player without rows is skipped and no
\* error is raised.
C13_ComparisonRows ==
    (ComparisonCalled /\ HasStatSchema(df)) =>
        /\ out.kind = "figure"
        /\ out.rows = ExpectedComparison(df, op.players)

\* the rows are as C13 says whenever a requested player has a row; when none
\* has, the call raises KeyError
C13_RowsUnlessNoneLeft ==
    (ComparisonCalled /\ HasStatSchema(df)) =>
        IF \E i \in 1..Len(op.players) : RowsOf(df, op.players[i]) # {}
        THEN out.kind = "figure" /\ out.rows = ExpectedComparison(df, op.players)
        ELSE out = KeyError

\* a comparison of a player without rows and one with rows: one row
C13_SkipReached ==
    /\ ComparisonCalled
    /\ Len(op.players) = 2
    /\ RowsOf(df, op.players[1]) = {}
    /\ out.kind = "figure"
    /\ Len(out.rows) = 1
    /\ out.rows[1].Player = op.players[2]

---------------------------------------------------------------------------
(* The dataset under the query functions *)

C14_AfterComparison ==
    /\ ComparisonCalled
    /\ out.kind = "figure"
    /\ Len(df.rows) = 2

---------------------------------------------------------------------------
(* Properties of create_sample_data *)

\* every combination of a fixed player, a fixed tournament and a game of
\* that tournament
SampleCombinations ==
    {[Player |-> players[i], Tournament |-> tournaments[j], Game |-> games[tournaments[j]][k]] :
        i \in 1..12, j \in 1..3, k \in 1..4}

\* C15: whatever the draws, the sample holds exactly one record for every
\* combination of the 12 players, the 3 tournaments and the 4 games of the
\* tournament (144 records and no other), and every drawn value is in its
\* range: Net_Score -15..19, Birdies 0..4, Pars 5..14, Bogeys 0..7,
\* Double_Bogeys 0..3.
C15_SampleData ==
    /\ cell.col = "Net_Score" => cell.value \in -15..19
    /\ cell.col = "Birdies" => cell.value \in 0..4
    /\ cell.col = "Pars" => cell.value \in 5..14
    /\ cell.col = "Bogeys" => cell.value \in 0..7
    /\ cell.col = "Double_Bogeys" => cell.value \in 0..3
    /\ \A n \in 1..Len(data) : data[n] \in SampleCombinations
    /\ \A m, n \in 1..Len(data) : m # n => data[m] # data[n]
    /\ sample_pc = "done" =>
        /\ Len(data) = 144
        /\ {data[n] : n \in 1..Len(data)} = SampleCombinations
        /\ Cardinality(SampleCombinations) = 144

\* the sample has been returned, its last draw being the largest
\* Double_Bogeys
C15_Witness ==
    /\ sample_pc = "done"
    /\ Len(data) = 144
    /\ cell = [col |-> "Double_Bogeys", value |-> 3]

\* the ends of the Net_Score range are drawn
C15_LowestNetScoreDrawn == cell = [col |-> "Net_Score", value |-> -15]

C15_HighestNetScoreDrawn == cell = [col |-> "Net_Score", value |-> 19]

---------------------------------------------------------------------------
(* Properties of the loader *)

\* the cache file exists, parses, has the four required columns and a row
CacheIsValid(f) ==
    /\ f.kind = "csv"
    /\ {"Player", "Tournament", "Game", "Net_Score"} \subseteq f.table.cols
    /\ f.table.nrows > 0

\* a non-empty dataset with the columns Player, Tournament, Game, Net_Score
UsableDataset(d) ==
    /\ d.nrows > 0
    /\ {"Player", "Tournament", "Game", "Net_Score"} \subseteq d.cols

IsPrefix(s, t) ==
    /\ Len(s) <= Len(t)
    /\ \A i \in 1..Len(s) : s[i] = t[i]

\* C1: whatever the file system and the network do, a call of load_gco_data
\* raises nothing, comes to return, and returns a non-empty dataset that has
\* the columns Player, Tournament, Game and Net_Score.
C1_LoaderAlwaysReturnsUsable ==
    /\ [](pc # "raised")
    /\ [](pc = "returned" => UsableDataset(result))
    /\ (pc = "cache" ~> pc = "returned")

\* C1 witness: the cache file was garbage, a download was validated but its
\* write failed, no URL was accepted, and the call returned the sample data
C1_Witness ==
    /\ pc = "returned"
    /\ source = "sample"
    /\ file0.kind = "garbage"
    /\ writes # <<>>

\* C2: a call that finds a valid cache file returns that file's dataset,
\* requests no URL and writes nothing; a URL is requested only in a call
\* that found no valid cache.
C2_ValidCacheShortCircuits ==
    /\ (pc = "returned" /\ CacheIsValid(file0)) =>
            /\ source = "cache"
            /\ result = file0.table
            /\ requested = <<>>
            /\ writes = <<>>
            /\ file = file0
    /\ requested # <<>> => ~CacheIsValid(file0)

\* C2 witness: a call returned the dataset of a valid cache file
C2_Witness ==
    /\ pc = "returned"
    /\ CacheIsValid(file0)
    /\ result = file0.table

\* C3: within one call the URLs are requested in list order, each at most
\* once; after a candidate was accepted the call requests no further URL;
\* the sample generator is reached only after all three were requested.
C3_UrlsInOrderOnce ==
    /\ [](IsPrefix(requested, urls_to_try))
    /\ [](source = "sample" => requested = urls_to_try)
    /\ [][source = "remote" => (requested' = requested \/ calls' # calls)]_vars
    /\ [](source = "remote" => pc = "returned")

\* C3 witness: the second URL was accepted, so the third was never requested
C3_Witness ==
    /\ pc = "returned"
    /\ source = "remote"
    /\ Len(requested) = 2

\* C4 (as claimed): a call writes the cache file exactly when it accepts a
\* remote candidate, what it writes is the dataset it returns, and a call
\* returning the cached or the sample dataset leaves the file as it was.
C4_WritesExactlyOnAccept ==
    pc = "returned" =>
        IF source = "remote"
        THEN writes = <<"full">> /\ file = to_csv(result)
        ELSE writes = <<>> /\ file = file0

\* C5: every failure of the cache step or of a URL is caught and moves the
\* call on by exactly one source: cache -> URL 1 -> URL 2 -> URL 3 -> sample.
C5_FailuresAdvanceChain ==
    [][ /\ pc' # "raised"
        /\ (pc = "cache" /\ caught' # "none") =>
                pc' = "remote" /\ idx' = 1 /\ requested' = <<>>
        /\ (pc = "remote" /\ idx <= Len(urls_to_try) /\ caught' # "none") =>
                /\ pc' = "remote"
                /\ idx' = idx + 1
                /\ requested' = Append(requested, urls_to_try[idx])
        /\ (pc = "remote" /\ pc' = "returned" /\ source' = "sample") =>
                idx = Len(urls_to_try) + 1
      ]_vars

\* C5 witness: the cache file could not be read, URL 1 timed out, URL 2 was
\* valid but could not be written, and the call is about to request URL 3
C5_Witness ==
    /\ pc = "remote"
    /\ file0 = Unreadable
    /\ idx = 3
    /\ caught = "write_error"

\* C6 (as claimed): every dataset load_gco_data returns has the five
\* count/score columns.
C6_StatColumnsPresent ==
    pc = "returned" =>
        {"Net_Score", "Birdies", "Pars", "Bogeys", "Double_Bogeys"} \subseteq result.cols

---------------------------------------------------------------------------
(* The cache file across calls *)

\* the call in progress or just returned follows one in which a URL's
\* table was accepted and written to the cache file
AfterAccepted == accepted # NoDf /\ pc \in {"cache", "remote", "returned"}

\* the call in progress or just returned follows one that returned sample
\* data
AfterSample == previous = "sample" /\ pc \in {"cache", "remote", "returned"}

\* once a table was accepted from a URL, a later call contacts no URL and
\* returns that table from the cache file
C16_AcceptedSticks ==
    AfterAccepted =>
        /\ requested = <<>>
        /\ pc # "remote"
        /\ pc = "returned" => (source = "cache" /\ result = accepted)

\* a call that returns sample data leaves the cache file as it found it,
\* and the call after it goes to the URLs
C16_SampleLeavesNoTrace ==
    /\ (pc = "returned" /\ source = "sample") => file = file0
    /\ (AfterSample /\ pc = "returned") => requested # <<>>

\* C16: while nothing else writes the cache file, once a call has accepted
\* a table from a URL and written the cache, every later call returns that
\* table from the cache and contacts no URL; and a call that falls back to
\* the sample data persists nothing, so that the next call goes to the URLs
\* again.
C16_CacheSticks == C16_AcceptedSticks /\ C16_SampleLeavesNoTrace

\* a second call has returned the table the first accepted from a URL
C16_StickReached ==
    /\ AfterAccepted
    /\ pc = "returned"
    /\ calls = 2
    /\ result = accepted

\* a call after a sample fallback has gone to the URLs
C16_RetryReached ==
    /\ AfterSample
    /\ pc = "returned"
    /\ requested # <<>>

=============================================================================
